---- MODULE Spec2Model ----
(***************************************************************************)
(* Model of sanitize_filename.py: the validator is_valid_windows_filename, *)
(* the sanitizer sanitize_filename, the bottom-up tree renamer             *)
(* rename_files_in_directory and main.                                     *)
(*                                                                         *)
(* A string is a sequence of one-character strings; a path is a sequence   *)
(* of names, read from the working directory.  The filesystem holds        *)
(* regular files and directories (no symbolic links) on a case-sensitive   *)
(* POSIX system, where os.path is posixpath.                               *)
(***************************************************************************)
EXTENDS Integers, Sequences, FiniteSets, TLC

VARIABLES
    input,              \* the line main reads from the console
    pc,                 \* position of the run: main, rename, walk, complete, done (crashed: ended by an exception)
    fs,                 \* the filesystem: node -> [parent, name, kind]
    fs0,                \* the filesystem as it was when the run started
    stack,              \* os.walk's stack, top first
    cur,                \* the (root, dirs, files) tuple being processed, as a 0/1-long sequence
    log,                \* the audit log
    attempts,           \* one record per rename attempt, in order
    listed,             \* nodes that some directory listing returned
    skipped,            \* paths whose scandir raised OSError inside os.walk
    nfail,              \* rename failures injected by the environment so far
    name,               \* pure-function specification: the argument
    valid_result,       \* pure-function specification: is_valid_windows_filename(name)
    sanitized_result,   \* pure-function specification: sanitize_filename(name)
    ppc                 \* pure-function specification: position

vars == <<input, pc, fs, fs0, stack, cur, log, attempts, listed, skipped, nfail,
          name, valid_result, sanitized_result, ppc>>

walkvars == <<input, pc, fs, fs0, stack, cur, log, attempts, listed, skipped, nfail>>
purevars == <<name, valid_result, sanitized_result, ppc>>

(***************************************************************************)
(* Bounds of the model.                                                    *)
(***************************************************************************)
MaxLen == 4             \* longest argument of the pure functions
MaxRenameFail == 1      \* rename failures the environment injects in one run
MaxScanFail == 1        \* unreadable directories in one run

(***************************************************************************)
(* Characters and strings.                                                 *)
(***************************************************************************)
UpperSeq == <<"A","B","C","D","E","F","G","H","I","J","K","L","M",
              "N","O","P","Q","R","S","T","U","V","W","X","Y","Z">>
LowerSeq == <<"a","b","c","d","e","f","g","h","i","j","k","l","m",
              "n","o","p","q","r","s","t","u","v","w","x","y","z">>
DigitSeq == <<"0","1","2","3","4","5","6","7","8","9">>

Range(s) == {s[i] : i \in DOMAIN s}

Upper == Range(UpperSeq)
Lower == Range(LowerSeq)
Digits == Range(DigitSeq)

\* str.upper() on one character
upper_char(c) ==
    IF c \in Lower THEN UpperSeq[CHOOSE i \in DOMAIN LowerSeq : LowerSeq[i] = c] ELSE c

\* str.upper()
str_upper(s) == [i \in 1..Len(s) |-> upper_char(s[i])]

\* str.endswith(c) for a one-character c
endswith(s, c) == Len(s) > 0 /\ s[Len(s)] = c

\* str.rfind(c) for a one-character c, 1-based, 0 when absent
rfind(s, c) ==
    IF \E i \in 1..Len(s) : s[i] = c
    THEN CHOOSE i \in 1..Len(s) : s[i] = c /\ \A j \in (i+1)..Len(s) : s[j] # c
    ELSE 0

RECURSIVE lstrip(_, _)
lstrip(s, chars) ==
    IF s # <<>> /\ Head(s) \in chars THEN lstrip(Tail(s), chars) ELSE s

RECURSIVE rstrip(_, _)
rstrip(s, chars) ==
    IF s # <<>> /\ s[Len(s)] \in chars THEN rstrip(SubSeq(s, 1, Len(s) - 1), chars) ELSE s

\* a faulty str.strip: nothing is stripped
str_strip_none(s, chars) == s

\* str.strip(chars)
str_strip(s, chars) == rstrip(lstrip(s, chars), chars)

\* the characters str.strip() removes when called without argument
Whitespace == {" ", "\n", "\t", "\r"}

\* str(counter) for counter >= 0
RECURSIVE DecStr(_)
DecStr(n) ==
    IF n < 10 THEN <<DigitSeq[n + 1]>>
    ELSE DecStr(n \div 10) \o <<DigitSeq[(n % 10) + 1]>>

(***************************************************************************)
(* os.path.splitext (posixpath: sep "/", no altsep, extsep ".").           *)
(***************************************************************************)
RECURSIVE splitext_scan(_, _, _)
splitext_scan(p, filenameIndex, dotIndex) ==
    IF filenameIndex < dotIndex
    THEN IF p[filenameIndex] # "."
         THEN <<SubSeq(p, 1, dotIndex - 1), SubSeq(p, dotIndex, Len(p))>>
         ELSE splitext_scan(p, filenameIndex + 1, dotIndex)
    ELSE <<p, <<>>>>

\* a faulty splitext: every name is split at its last period, leading periods included
splitext_lastdot(p) ==
    IF rfind(p, ".") > 0
    THEN <<SubSeq(p, 1, rfind(p, ".") - 1), SubSeq(p, rfind(p, "."), Len(p))>>
    ELSE <<p, <<>>>>

splitext(p) ==
    LET sepIndex == rfind(p, "/")
        dotIndex == rfind(p, ".")
    IN  IF dotIndex > sepIndex
        THEN splitext_scan(p, sepIndex + 1, dotIndex)
        ELSE <<p, <<>>>>

(***************************************************************************)
(* is_valid_windows_filename                                               *)
(***************************************************************************)
reserved_names ==
    { <<"C","O","N">>, <<"P","R","N">>, <<"A","U","X">>, <<"N","U","L">> }
    \cup { <<"C","O","M",d>> : d \in Digits \ {"0"} }
    \cup { <<"L","P","T",d>> : d \in Digits \ {"0"} }

\* the character class [a-zA-Z0-9_\-\.]
AllowedChars == Upper \cup Lower \cup Digits \cup {"_", "-", "."}

\* re.match(r'^[a-zA-Z0-9_\-\.]+$', s): without re.MULTILINE, $ matches at the
\* end of the string and also just before a newline that ends the string
re_match_allowed(s) ==
    \E k \in 1..Len(s) :
        /\ \A i \in 1..k : s[i] \in AllowedChars
        /\ \/ k = Len(s)
           \/ k = Len(s) - 1 /\ s[Len(s)] = "\n"

is_valid_windows_filename(filename) ==
    LET name_without_ext == str_upper(splitext(filename)[1])
    IN  IF name_without_ext \in reserved_names THEN FALSE
        ELSE IF endswith(filename, " ") \/ endswith(filename, ".") THEN FALSE
        ELSE IF ~ re_match_allowed(filename) THEN FALSE
        ELSE TRUE

(***************************************************************************)
(* sanitize_filename                                                       *)
(***************************************************************************)
\* re.sub(r'[^...]', replacement, s), keep being the characters the class excludes
RECURSIVE re_sub(_, _, _)
re_sub(s, keep, replacement) ==
    IF s = <<>> THEN <<>>
    ELSE (IF Head(s) \in keep THEN <<Head(s)>> ELSE replacement)
         \o re_sub(Tail(s), keep, replacement)

NameKeep == Upper \cup Lower \cup Digits \cup {"_", "-"}
ExtKeep == Upper \cup Lower \cup Digits \cup {"."}

unnamed_file == <<"u","n","n","a","m","e","d","_","f","i","l","e">>

sanitize_filename(filename, replacement) ==
    LET nm == splitext(filename)[1]
        ext == splitext(filename)[2]
        replaced == re_sub(nm, NameKeep, replacement)
        stripped == str_strip(replaced, {" ", "."})
        sanitized_name == IF stripped = <<>> THEN unnamed_file ELSE stripped
        sanitized_ext == IF ext # <<>> THEN re_sub(ext, ExtKeep, replacement) ELSE <<>>
    IN  sanitized_name \o sanitized_ext

\* the default value of sanitize_filename's replacement parameter
DefaultReplacement == <<"_">>

(***************************************************************************)
(* The filesystem.  Node 0 is the working directory (its own parent); a    *)
(* path is resolved from it, one name at a time.                           *)
(***************************************************************************)
Last(s) == s[Len(s)]
Front(s) == SubSeq(s, 1, Len(s) - 1)

Cwd(f) == CHOOSE n \in DOMAIN f : f[n].parent = n

Children(f, d) == {n \in DOMAIN f : f[n].parent = d /\ n # d}

ChildNames(f, d) == {f[n].name : n \in Children(f, d)}

\* the set holding the node a path leads to, empty when the path does not exist
RECURSIVE ResolveFrom(_, _, _)
ResolveFrom(f, S, p) ==
    IF p = <<>> \/ S = {} THEN S
    ELSE LET d == CHOOSE x \in S : TRUE
         IN  IF f[d].kind # "dir" THEN {}
             ELSE ResolveFrom(f, {n \in Children(f, d) : f[n].name = Head(p)}, Tail(p))

Resolve(f, p) == ResolveFrom(f, {Cwd(f)}, p)

\* Path.exists()
path_exists(f, p) == Resolve(f, p) # {}

\* Path(directory).resolve(): the components of the string, from the working directory
RECURSIVE path_resolve(_)
path_resolve(s) ==
    IF s = <<>> THEN <<>>
    ELSE LET k == IF \E i \in 1..Len(s) : s[i] = "/"
                  THEN CHOOSE i \in 1..Len(s) : s[i] = "/" /\ \A j \in 1..(i-1) : s[j] # "/"
                  ELSE Len(s) + 1
             first == SubSeq(s, 1, k - 1)
             rest == SubSeq(s, k + 1, Len(s))
         IN  (IF first = <<>> THEN <<>> ELSE <<first>>) \o path_resolve(rest)

\* the strict descendants of node d
RECURSIVE Descendants(_, _)
Descendants(f, d) ==
    Children(f, d) \cup UNION {Descendants(f, c) : c \in Children(f, d)}

\* Path.rename(): os.rename on POSIX.  A free target renames the entry; an
\* existing regular file is replaced by a regular file and an empty directory
\* by a directory; every other case raises OSError.
os_rename(f, src, dst) ==
    LET s == Resolve(f, src)
        dp == Resolve(f, Front(dst))
        d == Resolve(f, dst)
        sn == CHOOSE x \in s : TRUE
        dn == CHOOSE x \in d : TRUE
        pn == CHOOSE x \in dp : TRUE
        moved(g) == [g EXCEPT ![sn] = [parent |-> pn, name |-> Last(dst), kind |-> g[sn].kind]]
        without == [n \in DOMAIN f \ d |-> f[n]]
    IN  IF s = {} \/ dp = {} THEN [ok |-> FALSE, fs |-> f]
        ELSE IF d = {} THEN [ok |-> TRUE, fs |-> moved(f)]
        ELSE IF d = s THEN [ok |-> TRUE, fs |-> f]
        ELSE IF f[sn].kind = "file" /\ f[dn].kind = "file"
             THEN [ok |-> TRUE, fs |-> moved(without)]
        ELSE IF f[sn].kind = "dir" /\ f[dn].kind = "dir" /\ Children(f, dn) = {}
             THEN [ok |-> TRUE, fs |-> moved(without)]
        ELSE [ok |-> FALSE, fs |-> f]

(***************************************************************************)
(* The collision loops of rename_files_in_directory.                       *)
(***************************************************************************)
\* while new_path.exists(): new_name = f"{base_name}_{counter}{ext}"; counter += 1
RECURSIVE collision_loop(_, _, _, _, _, _)
collision_loop(f, root, base_name, ext, new_name, counter) ==
    IF path_exists(f, Append(root, new_name))
    THEN collision_loop(f, root, base_name, ext,
                        base_name \o <<"_">> \o DecStr(counter) \o ext, counter + 1)
    ELSE new_name

\* a faulty file branch: the suffix _1 is appended once and the new path is not tested again
file_new_name_once(f, root, new_name) ==
    IF path_exists(f, Append(root, new_name))
    THEN splitext(new_name)[1] \o <<"_", "1">> \o splitext(new_name)[2]
    ELSE new_name

\* the file branch: base_name, ext = os.path.splitext(new_name), counter = 1
file_new_name(f, root, new_name) ==
    collision_loop(f, root, splitext(new_name)[1], splitext(new_name)[2], new_name, 1)

\* a faulty directory branch: the candidate is used without looking for a collision
dir_new_name_noloop(f, root, new_name) == new_name

\* the directory branch: base_name = new_name, counter = 1
dir_new_name(f, root, new_name) ==
    collision_loop(f, root, new_name, <<>>, new_name, 1)

(***************************************************************************)
(* os.walk(directory, topdown=False)                                       *)
(***************************************************************************)
PathItem(p) == [tag |-> "path", top |-> p, dirs |-> <<>>, files |-> <<>>]
TupleItem(p, ds, fl) == [tag |-> "tuple", top |-> p, dirs |-> ds, files |-> fl]

\* the orders in which a directory listing can return a set of names
Orders(S) == {s \in [1..Cardinality(S) -> S] : \A i, j \in DOMAIN s : i # j => s[i] # s[j]}

\* top-down instead: the tuple of a directory is yielded before its subdirectories are walked
walk_push_topdown(rest, top, ds, fl) ==
    <<TupleItem(top, ds, fl)>> \o [i \in 1..Len(ds) |-> PathItem(Append(top, ds[i]))] \o rest

\* bottom-up: the tuple of top goes on the stack under the paths of its subdirectories
walk_push(rest, top, ds, fl) ==
    [i \in 1..Len(ds) |-> PathItem(Append(top, ds[i]))] \o <<TupleItem(top, ds, fl)>> \o rest

\* what an escaping OSError of scandir would do instead: end the run
ScandirErrorRaised == "crashed"

\* where the run continues after os.walk has met an OSError from scandir
\* (onerror is None: the error is ignored and the directory is skipped)
ScandirErrorPc == "walk"

\* what an uncaught OSError of a rename would do instead: end the run
RenameErrorRaised == "crashed"

\* where the run continues after the except OSError clause of a rename
ExceptOSErrorPc == "walk"

(***************************************************************************)
(* The initial states: what main can read, and the trees it can be run on. *)
(***************************************************************************)
\* the working directory holds the directory t (the tree) and the regular file f
FixedNodes ==
    (0 :> [parent |-> 0, name |-> <<>>, kind |-> "dir"])
    @@ (1 :> [parent |-> 0, name |-> <<"t">>, kind |-> "dir"])
    @@ (2 :> [parent |-> 0, name |-> <<"f">>, kind |-> "file"])

TreeRoot == CHOOSE n \in DOMAIN FixedNodes : FixedNodes[n].name = <<"t">>

\* t/{file, file, dir/file}
ShapeWide ==
    (3 :> [parent |-> 1, kind |-> "file"]) @@ (4 :> [parent |-> 1, kind |-> "file"])
    @@ (5 :> [parent |-> 1, kind |-> "dir"]) @@ (6 :> [parent |-> 5, kind |-> "file"])

\* t/dir/{file, dir/file}
ShapeDeep ==
    (3 :> [parent |-> 1, kind |-> "dir"]) @@ (4 :> [parent |-> 3, kind |-> "dir"])
    @@ (5 :> [parent |-> 4, kind |-> "file"]) @@ (6 :> [parent |-> 3, kind |-> "file"])

Shapes == {ShapeWide, ShapeDeep}

FilePoolSeq ==
    << <<"a","_">>, <<"a","!">>, <<"a","_","_","1">>, <<"a",".">>,
       <<"a","!",".","t">>, <<"a","_",".","t">>, <<"C","O","N",".","t">> >>

DirPoolSeq ==
    << <<"a","!">>, <<"a","_","_","1">>, <<"C","O","N">>, <<"a","!",".","t">>, <<"a",".">> >>

FilePool == Range(FilePoolSeq)
DirPool == Range(DirPoolSeq)

Pool(kind) == IF kind = "file" THEN FilePool ELSE DirPool

IndexIn(seq, x) == CHOOSE i \in DOMAIN seq : seq[i] = x

\* the names a shape can carry: siblings have different names, and (a listing
\* returns them in any order) siblings of one kind are numbered in pool order
Namings(sh) ==
    {nm \in [DOMAIN sh -> FilePool \cup DirPool] :
        /\ \A n \in DOMAIN sh : nm[n] \in Pool(sh[n].kind)
        /\ \A m, n \in DOMAIN sh : (m # n /\ sh[m].parent = sh[n].parent) => nm[m] # nm[n]
        /\ \A m, n \in DOMAIN sh :
              (m < n /\ sh[m].parent = sh[n].parent /\ sh[m].kind = "file" /\ sh[n].kind = "file")
              => IndexIn(FilePoolSeq, nm[m]) < IndexIn(FilePoolSeq, nm[n])}

TreeOf(sh, nm) ==
    FixedNodes @@ [n \in DOMAIN sh |->
                      [parent |-> sh[n].parent, name |-> nm[n], kind |-> sh[n].kind]]

Trees == UNION {{TreeOf(sh, nm) : nm \in Namings(sh)} : sh \in Shapes}

\* the trees used with the inputs that never reach the tree
PlainTrees == {t \in Trees : \A n \in DOMAIN t : t[n].name # <<"a",".">> /\ Len(t[n].name) < 4}

TreeInput == <<"t">>
OtherInputs == { <<>>, <<" ">>, <<"m">>, <<" ","m"," ">>, <<"f">> }

Entry(level, msg, old, new) == [level |-> level, msg |-> msg, old |-> old, new |-> new]

PureOff ==
    /\ name = <<>>
    /\ valid_result = FALSE
    /\ sanitized_result = <<>>
    /\ ppc = "off"

Init ==
    /\ \/ input = TreeInput /\ fs \in Trees
       \/ input \in OtherInputs /\ fs \in PlainTrees
    /\ fs0 = fs
    /\ pc = "main"
    /\ stack = <<>>
    /\ cur = <<>>
    /\ log = <<>>
    /\ attempts = <<>>
    /\ listed = {}
    /\ skipped = {}
    /\ nfail = 0
    /\ PureOff

(***************************************************************************)
(* main and rename_files_in_directory                                      *)
(***************************************************************************)
\* main, up to the call of rename_files_in_directory
Main ==
    /\ pc = "main"
    /\ LET directory == str_strip(input, Whitespace)
       IN  IF directory = <<>>
           THEN /\ log' = Append(log, Entry("ERROR", "NoDirectory", <<>>, <<>>))
                /\ pc' = "done"
           ELSE /\ log' = Append(log, Entry("INFO", "Processing", <<directory>>, <<>>))
                /\ pc' = "rename"
    /\ UNCHANGED <<input, fs, fs0, stack, cur, attempts, listed, skipped, nfail>>
    /\ UNCHANGED purevars

\* rename_files_in_directory, up to the for loop over os.walk
RenameEnter ==
    /\ pc = "rename"
    /\ LET directory == path_resolve(str_strip(input, Whitespace))
       IN  IF ~ path_exists(fs, directory)
           THEN /\ log' = Append(log, Entry("ERROR", "NotExist", directory, <<>>))
                /\ pc' = "complete"
                /\ stack' = stack
           ELSE /\ stack' = <<PathItem(directory)>>
                /\ pc' = "walk"
                /\ log' = log
    /\ UNCHANGED <<input, fs, fs0, cur, attempts, listed, skipped, nfail>>
    /\ UNCHANGED purevars

\* os.walk takes a path from its stack and lists it; an OSError of scandir is ignored
WalkScan ==
    /\ pc = "walk" /\ cur = <<>> /\ stack # <<>> /\ Head(stack).tag = "path"
    /\ LET top == Head(stack).top
           d == Resolve(fs, top)
           dn == CHOOSE x \in d : TRUE
           isdir == d # {} /\ fs[dn].kind = "dir"
       IN  \/ /\ ~ isdir \/ Cardinality(skipped) < MaxScanFail
              /\ stack' = Tail(stack)
              /\ skipped' = skipped \cup {top}
              /\ pc' = ScandirErrorPc
              /\ listed' = listed
           \/ /\ isdir
              /\ \E ds \in Orders({fs[n].name : n \in {c \in Children(fs, dn) : fs[c].kind = "dir"}}),
                    fl \in Orders({fs[n].name : n \in {c \in Children(fs, dn) : fs[c].kind = "file"}}) :
                     stack' = walk_push(Tail(stack), top, ds, fl)
              /\ listed' = listed \cup Children(fs, dn)
              /\ UNCHANGED <<pc, skipped>>
    /\ UNCHANGED <<input, fs, fs0, cur, log, attempts, nfail>>
    /\ UNCHANGED purevars

\* os.walk yields a (root, dirs, files) tuple to the for loop
WalkYield ==
    /\ pc = "walk" /\ cur = <<>> /\ stack # <<>> /\ Head(stack).tag = "tuple"
    /\ cur' = <<Head(stack)>>
    /\ stack' = Tail(stack)
    /\ UNCHANGED <<input, pc, fs, fs0, log, attempts, listed, skipped, nfail>>
    /\ UNCHANGED purevars

\* the body of either inner loop for one entry: validate, sanitize, resolve the
\* collision, rename, log
ProcessEntry(branch, old_name, new_cur) ==
    LET root == cur[1].top
        old_path == Append(root, old_name)
        cand == sanitize_filename(old_name, DefaultReplacement)
        new_name == IF branch = "file" THEN file_new_name(fs, root, cand)
                                       ELSE dir_new_name(fs, root, cand)
        new_path == Append(root, new_name)
        natural == os_rename(fs, old_path, new_path)
        outcomes == {[ok |-> natural.ok, fs |-> natural.fs, injected |-> 0]}
                    \cup (IF nfail < MaxRenameFail
                          THEN {[ok |-> FALSE, fs |-> fs, injected |-> 1]} ELSE {})
        rd == Resolve(fs, root)
    IN  IF is_valid_windows_filename(old_name)
        THEN /\ cur' = new_cur
             /\ UNCHANGED <<pc, fs, log, attempts, nfail>>
        ELSE \E o \in outcomes :
                /\ fs' = o.fs
                /\ nfail' = nfail + o.injected
                /\ log' = Append(log,
                       IF o.ok
                       THEN Entry("INFO", IF branch = "file" THEN "RenamedFile"
                                          ELSE "RenamedDirectory", old_path, new_path)
                       ELSE Entry("ERROR", "FailedRename", old_path, new_path))
                /\ attempts' = Append(attempts,
                       [node |-> Resolve(fs, old_path), old |-> old_path, new |-> new_path,
                        cand |-> cand, branch |-> branch, ok |-> o.ok,
                        occupied |-> path_exists(fs, new_path),
                        siblings |-> IF rd = {} THEN {}
                                     ELSE ChildNames(fs, CHOOSE x \in rd : TRUE)])
                /\ pc' = IF o.ok THEN "walk" ELSE ExceptOSErrorPc
                /\ cur' = new_cur

\* one turn of "for old_name in files"
ProcessFile ==
    /\ pc = "walk" /\ cur # <<>> /\ cur[1].files # <<>>
    /\ ProcessEntry("file", Head(cur[1].files),
                    <<[cur[1] EXCEPT !.files = Tail(cur[1].files)]>>)
    /\ UNCHANGED <<input, fs0, stack, listed, skipped>>
    /\ UNCHANGED purevars

\* one turn of "for old_name in dirs", entered when the files are done
ProcessDir ==
    /\ pc = "walk" /\ cur # <<>> /\ cur[1].files = <<>> /\ cur[1].dirs # <<>>
    /\ ProcessEntry("dir", Head(cur[1].dirs),
                    <<[cur[1] EXCEPT !.dirs = Tail(cur[1].dirs)]>>)
    /\ UNCHANGED <<input, fs0, stack, listed, skipped>>
    /\ UNCHANGED purevars

\* both inner loops are done: the for loop asks os.walk for the next tuple
LoopNext ==
    /\ pc = "walk" /\ cur # <<>> /\ cur[1].files = <<>> /\ cur[1].dirs = <<>>
    /\ cur' = <<>>
    /\ UNCHANGED <<input, pc, fs, fs0, stack, log, attempts, listed, skipped, nfail>>
    /\ UNCHANGED purevars

\* os.walk is exhausted: rename_files_in_directory returns
WalkEnd ==
    /\ pc = "walk" /\ cur = <<>> /\ stack = <<>>
    /\ pc' = "complete"
    /\ UNCHANGED <<input, fs, fs0, stack, cur, log, attempts, listed, skipped, nfail>>
    /\ UNCHANGED purevars

\* main, after rename_files_in_directory has returned
MainComplete ==
    /\ pc = "complete"
    /\ log' = Append(log, Entry("INFO", "Complete", <<>>, <<>>))
    /\ pc' = "done"
    /\ UNCHANGED <<input, fs, fs0, stack, cur, attempts, listed, skipped, nfail>>
    /\ UNCHANGED purevars

Next ==
    \/ Main
    \/ RenameEnter
    \/ WalkScan
    \/ WalkYield
    \/ ProcessFile
    \/ ProcessDir
    \/ LoopNext
    \/ WalkEnd
    \/ MainComplete

Spec == Init /\ [][Next]_vars

(***************************************************************************)
(* The pure functions, applied to every string of a small alphabet.        *)
(***************************************************************************)
PureAlphabet == {"C", "O", "N", "n", ".", " ", "\n", "-", "/"}

PureNames == UNION {[1..k -> PureAlphabet] : k \in 0..MaxLen}

WalkOff ==
    /\ input = <<>>
    /\ pc = "off"
    /\ fs = FixedNodes
    /\ fs0 = FixedNodes
    /\ stack = <<>>
    /\ cur = <<>>
    /\ log = <<>>
    /\ attempts = <<>>
    /\ listed = {}
    /\ skipped = {}
    /\ nfail = 0

InitPure ==
    /\ name \in PureNames
    /\ valid_result = FALSE
    /\ sanitized_result = <<>>
    /\ ppc = "init"
    /\ WalkOff

Validate ==
    /\ ppc = "init"
    /\ valid_result' = is_valid_windows_filename(name)
    /\ ppc' = "validated"
    /\ UNCHANGED <<name, sanitized_result>>
    /\ UNCHANGED walkvars

Sanitize ==
    /\ ppc = "validated"
    /\ sanitized_result' = sanitize_filename(name, DefaultReplacement)
    /\ ppc' = "sanitized"
    /\ UNCHANGED <<name, valid_result>>
    /\ UNCHANGED walkvars

NextPure ==
    \/ Validate
    \/ Sanitize

SpecPure == InitPure /\ [][NextPure]_vars

(***************************************************************************)
(* Vocabulary of the properties.                                           *)
(***************************************************************************)
MaxOf(S) == CHOOSE x \in S : \A y \in S : y <= x
MinOf(S) == CHOOSE x \in S : \A y \in S : x <= y

\* s without its leading and trailing whitespace
Trimmed(s) ==
    LET keep == {i \in DOMAIN s : s[i] \notin Whitespace}
    IN  IF keep = {} THEN <<>> ELSE SubSeq(s, MinOf(keep), MaxOf(keep))

\* the path the run was asked to process
AskedPath == path_resolve(Trimmed(input))

IsDirAtStart(p) ==
    /\ Resolve(fs0, p) # {}
    /\ \A n \in Resolve(fs0, p) : fs0[n].kind = "dir"

\* the run was given an existing directory
TreeRun == Trimmed(input) # <<>> /\ IsDirAtStart(AskedPath)

\* the entries below the processed directory, now
EntriesBelow == UNION {Descendants(fs, r) : r \in Resolve(fs0, AskedPath)}

IsLetterOrDigit(c) == c \in Upper \cup Lower \cup Digits

\* 1-based position of the last period of n, 0 when it has none
LastPeriod(n) ==
    IF \E i \in DOMAIN n : n[i] = "." THEN MaxOf({i \in DOMAIN n : n[i] = "."}) ELSE 0

LastSlash(n) ==
    IF \E i \in DOMAIN n : n[i] = "/" THEN MaxOf({i \in DOMAIN n : n[i] = "/"}) ELSE 0

\* where the extension starts when the name is split at its last period,
\* Len(n) + 1 when there is no period
PlainExtStart(n) == IF LastPeriod(n) > 0 THEN LastPeriod(n) ELSE Len(n) + 1

\* where the extension starts when periods that lead the last path component
\* start no extension
LeadingAwareExtStart(n) ==
    IF /\ LastPeriod(n) > LastSlash(n)
       /\ \E j \in (LastSlash(n) + 1)..(LastPeriod(n) - 1) : n[j] # "."
    THEN LastPeriod(n)
    ELSE Len(n) + 1

\* the six steps of the sanitizer, k being where the extension starts
SixSteps(n, k) ==
    LET stem == [i \in 1..(k - 1) |-> IF IsLetterOrDigit(n[i]) \/ n[i] \in {"_", "-"}
                                      THEN n[i] ELSE "_"]
        inner == {i \in DOMAIN stem : stem[i] \notin {" ", "."}}
        stripped == IF inner = {} THEN <<>> ELSE SubSeq(stem, MinOf(inner), MaxOf(inner))
        final == IF stripped = <<>> THEN unnamed_file ELSE stripped
        ext == [i \in 1..(Len(n) - k + 1) |->
                   IF IsLetterOrDigit(n[k + i - 1]) \/ n[k + i - 1] = "."
                   THEN n[k + i - 1] ELSE "_"]
    IN  final \o ext

\* the name the collision rule gives suffix N: before the extension of a
\* file's candidate, after the whole candidate of a directory
Suffixed(a, N) ==
    IF a.branch = "file"
    THEN SubSeq(a.cand, 1, LeadingAwareExtStart(a.cand) - 1) \o <<"_">> \o DecStr(N)
         \o SubSeq(a.cand, LeadingAwareExtStart(a.cand), Len(a.cand))
    ELSE a.cand \o <<"_">> \o DecStr(N)

\* the audit entry of a rename attempt
AttemptEntry(a) ==
    IF a.ok
    THEN Entry("INFO", IF a.branch = "file" THEN "RenamedFile" ELSE "RenamedDirectory",
               a.old, a.new)
    ELSE Entry("ERROR", "FailedRename", a.old, a.new)

StartEntry == Entry("INFO", "Processing", <<Trimmed(input)>>, <<>>)
CompleteEntry == Entry("INFO", "Complete", <<>>, <<>>)

\* some rename attempt of the run has failed
SomeRenameFailed == \E i \in DOMAIN attempts : ~ attempts[i].ok

\* the run has not stopped short of its end: it is over, or the guard of one
\* of its steps holds (main, the entry of the renamer, os.walk's next item,
\* the next turn of an inner loop, the return to main)
RunsOn ==
    \/ pc \in {"main", "rename", "complete", "done"}
    \/ pc = "walk" /\ cur = <<>> /\ stack = <<>>
    \/ pc = "walk" /\ cur = <<>> /\ stack # <<>> /\ Head(stack).tag \in {"path", "tuple"}
    \/ pc = "walk" /\ cur # <<>>

\* what holds at every moment of a run in which renames fail
FailedRenamesStayLocal ==
    /\ \A i \in DOMAIN attempts :
         ~ attempts[i].ok =>
            /\ \E k \in DOMAIN log :
                  log[k] = Entry("ERROR", "FailedRename", attempts[i].old, attempts[i].new)
            /\ \A n \in attempts[i].node : fs[n].name = Last(attempts[i].old)
    /\ pc = "done" =>
         \A n \in listed :
            ~ is_valid_windows_filename(fs0[n].name)
                => \E i \in DOMAIN attempts : attempts[i].node = {n}

\* what holds at every moment of a run in which listings are unreadable
UnreadableListingsAreSkipped ==
    \A p \in skipped :
        IsDirAtStart(p) =>
            /\ pc \in {"walk", "complete", "done"}
            /\ \A k \in DOMAIN log : log[k].level = "ERROR" => log[k].msg = "FailedRename"
            /\ \A d \in Resolve(fs0, p) :
                  /\ Descendants(fs0, d) \cap listed = {}
                  /\ \A i \in DOMAIN attempts : attempts[i].node \cap Descendants(fs0, d) = {}
                  /\ (pc = "done" /\ d \in listed /\ ~ is_valid_windows_filename(fs0[d].name))
                        => \E i \in DOMAIN attempts : attempts[i].node = {d}
            /\ pc = "done" => Last(log) = CompleteEntry

(***************************************************************************)
(* C1: after a run on an existing directory in which no rename failed and  *)
(* every listing was read, every entry below the directory has a name that *)
(* is_valid_windows_filename accepts.                                      *)
(***************************************************************************)
C1_AllNamesValidAfterRun ==
    (/\ pc = "done" /\ TreeRun /\ skipped = {}
     /\ \A i \in DOMAIN attempts : attempts[i].ok)
    => \A n \in EntriesBelow : is_valid_windows_filename(fs[n].name)

(***************************************************************************)
(* C2: is_valid_windows_filename(n) is true exactly when the stem of n,    *)
(* uppercased, is not reserved, n does not end with a space or a period,   *)
(* and every character of n is a letter, digit, underscore, hyphen or      *)
(* period.                                                                 *)
(***************************************************************************)
C2_ValidIffThreeRules ==
    ppc \in {"validated", "sanitized"} =>
        (valid_result <=>
            /\ [i \in 1..(LeadingAwareExtStart(name) - 1) |-> upper_char(name[i])]
                   \notin reserved_names
            /\ ~ (name # <<>> /\ name[Len(name)] \in {" ", "."})
            /\ \A i \in DOMAIN name :
                   IsLetterOrDigit(name[i]) \/ name[i] \in {"_", "-", "."})

(***************************************************************************)
(* C3, as claimed: sanitize_filename(n) is the result of the six steps     *)
(* with n split at its last period, wherever that period is, and is never  *)
(* empty.                                                                  *)
(***************************************************************************)
C3_SixStepsAtLastPeriod ==
    ppc = "sanitized" =>
        /\ sanitized_result = SixSteps(name, PlainExtStart(name))
        /\ sanitized_result # <<>>

(***************************************************************************)
(* C3, amended: sanitize_filename(n) is the result of the six steps with n *)
(* split at its last period only when a character other than a period      *)
(* precedes that period in the last path component (otherwise the whole    *)
(* of n is the stem and the extension is empty), and is never empty.       *)
(***************************************************************************)
C3_SixStepsLeadingPeriodsKept ==
    ppc = "sanitized" =>
        /\ sanitized_result = SixSteps(name, LeadingAwareExtStart(name))
        /\ sanitized_result # <<>>

\* C3 witness: a name that begins with a period has been sanitized as one stem
C3_Witness ==
    /\ ppc = "sanitized"
    /\ name = <<".", "n">>
    /\ sanitized_result = <<"_", "n">>

(***************************************************************************)
(* C4: every rename attempt targets a path at which nothing exists at that *)
(* moment, in the directory of the entry: the sanitized candidate when it  *)
(* is free, otherwise the candidate with _N for the smallest N >= 1 that   *)
(* is free; and the number of entries never changes.                       *)
(***************************************************************************)
C4_FreeTargetSmallestSuffix ==
    /\ Cardinality(DOMAIN fs) = Cardinality(DOMAIN fs0)
    /\ \A i \in DOMAIN attempts :
         LET a == attempts[i]
         IN  /\ ~ a.occupied
             /\ Front(a.new) = Front(a.old)
             /\ IF a.cand \notin a.siblings
                THEN Last(a.new) = a.cand
                ELSE \E N \in 1..(Cardinality(a.siblings) + 1) :
                        /\ Last(a.new) = Suffixed(a, N)
                        /\ \A M \in 1..(N - 1) : Suffixed(a, M) \in a.siblings

\* C4 witness: a file was renamed past an occupied candidate and an occupied _1
C4_Witness ==
    \E i \in DOMAIN attempts :
        /\ attempts[i].ok
        /\ attempts[i].branch = "file"
        /\ attempts[i].cand = <<"a","_">>
        /\ <<"a","_","_","1">> \in attempts[i].siblings
        /\ Last(attempts[i].new) = <<"a","_","_","2">>
        /\ \E n \in DOMAIN fs : fs[n].name = <<"a","_","_","2">>

(***************************************************************************)
(* C5: rename attempts come bottom-up: an attempt on an entry inside the   *)
(* subtree of a directory precedes any attempt on that directory, in one   *)
(* directory the attempts on files precede those on subdirectories, and at *)
(* each attempt the old path still leads to the entry that was listed.     *)
(***************************************************************************)
C5_BottomUpOrder ==
    \A i \in DOMAIN attempts :
        /\ attempts[i].node # {}
        /\ attempts[i].node = Resolve(fs0, attempts[i].old)
        /\ \A j \in DOMAIN attempts :
             /\ (\E d \in attempts[i].node : attempts[j].node \subseteq Descendants(fs0, d))
                    => j < i
             /\ (/\ Front(attempts[i].old) = Front(attempts[j].old)
                 /\ attempts[i].branch = "file"
                 /\ attempts[j].branch = "dir") => i < j

\* C5 witness: an entry was renamed inside a directory that was renamed afterwards
C5_Witness ==
    \E i, j \in DOMAIN attempts :
        /\ i < j
        /\ attempts[i].ok /\ attempts[j].ok
        /\ attempts[j].branch = "dir"
        /\ \E d \in attempts[j].node : attempts[i].node \subseteq Children(fs0, d)

(***************************************************************************)
(* C6: a failed rename is logged as an ERROR entry with the old and the    *)
(* attempted new path, leaves the entry under its old name, and does not   *)
(* stop the run: the run goes on to completion, and by then every listed   *)
(* entry with an invalid name has had its rename attempt.                  *)
(***************************************************************************)
C6_RenameFailureIsLocal ==
    /\ FailedRenamesStayLocal
    /\ SomeRenameFailed => RunsOn
    /\ (SomeRenameFailed /\ pc = "done") => Last(log) = CompleteEntry

\* C6 witness: a run has completed in which a rename failed and a later one succeeded
C6_Witness ==
    /\ pc = "done"
    /\ \E i, j \in DOMAIN attempts :
          /\ i < j
          /\ ~ attempts[i].ok
          /\ attempts[j].ok
          /\ Front(attempts[i].old) = Front(attempts[j].old)

(***************************************************************************)
(* C7: when the path given to rename_files_in_directory is not an existing *)
(* directory (it is missing, or it is a regular file), an ERROR entry is   *)
(* logged and nothing is listed or renamed.                                *)
(***************************************************************************)
C7_NotADirectoryIsAnError ==
    (/\ pc \in {"complete", "done"}
     /\ Trimmed(input) # <<>>
     /\ ~ IsDirAtStart(AskedPath))
    => /\ \E k \in DOMAIN log : log[k].level = "ERROR"
       /\ attempts = <<>>
       /\ listed = {}
       /\ fs = fs0

(***************************************************************************)
(* C8, as claimed: a run on an empty or missing path ends with the error   *)
(* as its last audit entry, and logs neither the start nor the completion  *)
(* message; any other run logs the start message, the entries of the       *)
(* rename attempts and the completion message, in that order.              *)
(***************************************************************************)
C8_EarlyExitLogsOnlyTheError ==
    pc = "done" =>
        IF Trimmed(input) = <<>> \/ Resolve(fs0, AskedPath) = {}
        THEN /\ log # <<>>
             /\ Last(log).level = "ERROR"
             /\ \A k \in DOMAIN log : log[k].msg \notin {"Processing", "Complete"}
        ELSE log = <<StartEntry>> \o [i \in DOMAIN attempts |-> AttemptEntry(attempts[i])]
                   \o <<CompleteEntry>>

(***************************************************************************)
(* C8, amended: a run on an empty path logs the error and nothing else; a  *)
(* run on a missing path logs the start message, the error and the         *)
(* completion message; any other run logs the start message, the entries   *)
(* of the rename attempts and the completion message, in that order.       *)
(***************************************************************************)
C8_AuditLogOfARun ==
    pc = "done" =>
        IF Trimmed(input) = <<>>
        THEN log = <<Entry("ERROR", "NoDirectory", <<>>, <<>>)>>
        ELSE IF Resolve(fs0, AskedPath) = {}
        THEN /\ log = <<StartEntry, Entry("ERROR", "NotExist", AskedPath, <<>>), CompleteEntry>>
             /\ attempts = <<>>
             /\ listed = {}
        ELSE log = <<StartEntry>> \o [i \in DOMAIN attempts |-> AttemptEntry(attempts[i])]
                   \o <<CompleteEntry>>

\* C8 witness: a run on a missing path has ended with the completion message
C8_Witness ==
    /\ pc = "done"
    /\ Trimmed(input) = <<"m">>
    /\ Len(log) > 2
    /\ log[2].level = "ERROR"
    /\ Last(log) = CompleteEntry

(***************************************************************************)
(* C9, as claimed: once the listing of a directory of the tree could not   *)
(* be read, the run does not go on: it neither continues the traversal nor *)
(* reaches its normal completion.                                          *)
(***************************************************************************)
C9_UnreadableListingEndsTheRun ==
    (\E p \in skipped : IsDirAtStart(p)) => pc \notin {"walk", "complete", "done"}

(***************************************************************************)
(* C9, amended: when the listing of a directory of the tree cannot be      *)
(* read, the directory is skipped without an audit entry: nothing below it *)
(* is listed or renamed, the traversal goes on to its normal completion,   *)
(* and the directory itself still gets its own rename attempt at its       *)
(* parent's level when its name is invalid.  Only failed renames are       *)
(* logged as errors.                                                       *)
(***************************************************************************)
C9_UnreadableListingIsSkipped ==
    /\ UnreadableListingsAreSkipped
    /\ (\E p \in skipped : IsDirAtStart(p)) => RunsOn

\* C9 witness: a run has completed after skipping a non-empty subdirectory that it renamed
C9_Witness ==
    /\ pc = "done"
    /\ Last(log) = CompleteEntry
    /\ \E p \in skipped :
          /\ IsDirAtStart(p)
          /\ \E d \in Resolve(fs0, p) :
                /\ Children(fs0, d) # {}
                /\ \E i \in DOMAIN attempts : attempts[i].node = {d} /\ attempts[i].ok

(***************************************************************************)
(* C10: every rename attempt is to a name other than the entry's current   *)
(* name; when sanitize_filename returns the name unchanged, the new name   *)
(* is the candidate with a suffix _N, N >= 1; a successful attempt leaves  *)
(* the entry under the new name; and by the end of the run every listed    *)
(* entry with an invalid name has had such an attempt.                     *)
(***************************************************************************)
C10_InvalidNameAlwaysChanges ==
    /\ \A i \in DOMAIN attempts :
         LET a == attempts[i]
         IN  /\ a.new # a.old
             /\ ~ is_valid_windows_filename(Last(a.old))
             /\ a.cand = Last(a.old)
                    => \E N \in 1..(Cardinality(a.siblings) + 1) : Last(a.new) = Suffixed(a, N)
             /\ a.ok => \A n \in a.node : fs[n].name = Last(a.new) /\ fs[n].name # fs0[n].name
    /\ pc = "done" =>
         \A n \in listed :
            ~ is_valid_windows_filename(fs0[n].name)
                => \E i \in DOMAIN attempts : attempts[i].node = {n} /\ attempts[i].new # attempts[i].old

\* C10 witness: a directory with a reserved name, which sanitizing leaves unchanged, was renamed to its _1 form
C10_Witness ==
    \E i \in DOMAIN attempts :
        /\ attempts[i].ok
        /\ attempts[i].cand = <<"C","O","N">>
        /\ Last(attempts[i].old) = <<"C","O","N">>
        /\ Last(attempts[i].new) = <<"C","O","N","_","1">>
        /\ \E n \in attempts[i].node : fs[n].name = <<"C","O","N","_","1">>

====
